---------------------------- MODULE Spec2Model ----------------------------
(***************************************************************************)
(* A model of kicad-xyrs: the command-line exporter (cli.py), the core     *)
(* extraction and formatting logic (kicad_xyrs.py) and the file I/O        *)
(* registry (file_io.py).                                                  *)
(*                                                                         *)
(* Conventions.  A Python str is a sequence of one-character strings, so   *)
(* that lower(), upper(), split(), the regular expression of refdes_key    *)
(* and the ordering of strings are computed, not assumed.  A Python float  *)
(* is an exact rational <<n, d>> in lowest terms with d > 0.  A call that  *)
(* may raise returns a record whose field ok tells whether it returned.    *)
(* None is the string "None" in a variable that holds no object yet; a     *)
(* call that returns an object or None returns Some(v) or Nothing.         *)
(***************************************************************************)
EXTENDS Integers, Sequences, FiniteSets, TLC

VARIABLES
    argv,         \* the command line: [pcb_exists, out, format]
    pcbfile,      \* the board design as stored in the file named by --pcb
    board,        \* the board object returned by pcbnew.LoadBoard (mutable)
    pc,           \* position of main_cli
    output_format, \* the parameter of main_cli, as click passes it
    footprints,   \* the filtered (then sorted) footprints: indices into board
    format_dict,  \* the looked-up output format definition
    settings,     \* Settings: [origin]
    lines,        \* build_footprint_report: the rows appended so far
    df,           \* the data frame: report_df, then the translated frame
    invoked,      \* the reader and writer invocations made by file_io, in order
    error,        \* the exception that ended main_cli: [type, at], at the
                  \* position where it was raised
    exit_code,    \* the status the process ended with, or None
    call,         \* a direct call of a library function: [fn, ...arguments]
    ret           \* what that call returned

vars == <<argv, pcbfile, board, pc, output_format, footprints, format_dict,
          settings, lines, df, invoked, error, exit_code, call, ret>>

None == "None"
Some(v) == [some |-> TRUE, val |-> v]
Nothing == [some |-> FALSE]

-----------------------------------------------------------------------------
(* Python str                                                              *)

UpperCase == <<"A","B","C","D","E","F","G","H","I","J","K","L","M",
               "N","O","P","Q","R","S","T","U","V","W","X","Y","Z">>
LowerCase == <<"a","b","c","d","e","f","g","h","i","j","k","l","m",
               "n","o","p","q","r","s","t","u","v","w","x","y","z">>
DigitChars == <<"0","1","2","3","4","5","6","7","8","9">>

Range(s) == {s[i] : i \in DOMAIN s}
IndexIn(c, s) == CHOOSE i \in DOMAIN s : s[i] = c

IsUpper(c) == c \in Range(UpperCase)
IsLower(c) == c \in Range(LowerCase)
IsLetter(c) == IsUpper(c) \/ IsLower(c)
IsDigit(c) == c \in Range(DigitChars)

\* ord(c) of the characters the model uses (ASCII)
Ord(c) ==
    CASE IsDigit(c) -> 47 + IndexIn(c, DigitChars)
      [] IsUpper(c) -> 64 + IndexIn(c, UpperCase)
      [] IsLower(c) -> 96 + IndexIn(c, LowerCase)
      [] c = "-" -> 45
      [] c = "." -> 46
      [] c = "/" -> 47
      [] c = ":" -> 58
      [] c = "_" -> 95

\* str.lower() and str.upper()
Lower(s) == [i \in DOMAIN s |->
               IF IsUpper(s[i]) THEN LowerCase[IndexIn(s[i], UpperCase)] ELSE s[i]]
Upper(s) == [i \in DOMAIN s |->
               IF IsLower(s[i]) THEN UpperCase[IndexIn(s[i], LowerCase)] ELSE s[i]]

\* a < b for two str: by code point, a proper prefix first
RECURSIVE StrLess(_, _)
StrLess(a, b) ==
    IF b = <<>> THEN FALSE
    ELSE IF a = <<>> THEN TRUE
    ELSE IF a[1] # b[1] THEN Ord(a[1]) < Ord(b[1])
    ELSE StrLess(Tail(a), Tail(b))

\* s.split(sep) for a one-character sep: the pieces between the separators
RECURSIVE Split(_, _)
Split(s, sep) ==
    IF \A i \in DOMAIN s : s[i] # sep THEN <<s>>
    ELSE LET i == CHOOSE k \in DOMAIN s :
                      s[k] = sep /\ \A j \in 1..(k - 1) : s[j] # sep
         IN <<SubSeq(s, 1, i - 1)>> \o Split(SubSeq(s, i + 1, Len(s)), sep)

\* s.strip(ch): leading and trailing ch removed
RECURSIVE Strip(_, _)
Strip(s, ch) ==
    IF s = <<>> THEN s
    ELSE IF s[1] = ch THEN Strip(Tail(s), ch)
    ELSE IF s[Len(s)] = ch THEN Strip(SubSeq(s, 1, Len(s) - 1), ch)
    ELSE s

\* int(s) of a run of decimal digits
RECURSIVE IntOf(_)
IntOf(s) ==
    IF s = <<>> THEN 0
    ELSE 10 * IntOf(SubSeq(s, 1, Len(s) - 1)) + (IndexIn(s[Len(s)], DigitChars) - 1)

-----------------------------------------------------------------------------
(* Python float, as an exact rational                                      *)

Abs(n) == IF n < 0 THEN -n ELSE n

RECURSIVE GCD(_, _)
GCD(a, b) == IF b = 0 THEN a ELSE GCD(b, a % b)

Rat(n, d) ==
    LET g == GCD(Abs(n), Abs(d))
        s == IF d < 0 THEN -1 ELSE 1
    IN <<(s * n) \div g, (s * d) \div g>>

RatInt(n) == <<n, 1>>
\* over the least common denominator
RatSub(a, b) ==
    LET g == GCD(a[2], b[2])
    IN Rat(a[1] * (b[2] \div g) - b[1] * (a[2] \div g), (a[2] \div g) * b[2])
\* the factors are cancelled crosswise before multiplying
RatMul(a, b) ==
    LET g1 == GCD(Abs(a[1]), b[2])
        g2 == GCD(Abs(b[1]), a[2])
    IN Rat((a[1] \div g1) * (b[1] \div g2), (a[2] \div g2) * (b[2] \div g1))

\* round(x, 4): the closest multiple of 1/10000, a tie going to the even one
Round4(x) ==
    LET g == GCD(10000, x[2])
        a == x[1] * (10000 \div g)
        b == x[2] \div g
        lo == a \div b
        twice == 2 * (a - lo * b)
        k == IF twice < b THEN lo
             ELSE IF twice > b THEN lo + 1
             ELSE IF lo % 2 = 0 THEN lo ELSE lo + 1
    IN Rat(k, 10000)

\* pcbnew.ToMM: internal units (nanometres) to millimetres
ToMM(iu) == Rat(iu, 1000000)

-----------------------------------------------------------------------------
(* kicad_xyrs.py                                                           *)

\* a call that returned v / a call that raised
Returned(v) == [ok |-> TRUE, val |-> v]
Raised(e) == [ok |-> FALSE, err |-> e]

convert_units(value, unit) ==
    IF unit = "mm" THEN Returned(RatMul(value, RatInt(1)))
    ELSE IF unit \in {"mil", "thou"} THEN Returned(RatMul(value, Rat(10000, 254)))
    ELSE IF unit = "inch" THEN Returned(RatMul(value, Rat(10, 254)))
    ELSE Raised("ValueError")

\* the groups of re.match(r'([A-Za-z]+)(\d+)', ref), or None: the longest
\* run of letters at the start, then the longest run of digits after it
LetterRun(ref) ==
    LET n == CHOOSE k \in 0..Len(ref) :
                 /\ \A j \in 1..k : IsLetter(ref[j])
                 /\ (k < Len(ref) => ~IsLetter(ref[k + 1]))
    IN SubSeq(ref, 1, n)
DigitRun(rest) ==
    LET n == CHOOSE k \in 0..Len(rest) :
                 /\ \A j \in 1..k : IsDigit(rest[j])
                 /\ (k < Len(rest) => ~IsDigit(rest[k + 1]))
    IN SubSeq(rest, 1, n)
ReMatch(ref) ==
    LET prefix == LetterRun(ref)
        number == DigitRun(SubSeq(ref, Len(prefix) + 1, Len(ref)))
    IN IF prefix # <<>> /\ number # <<>> THEN Some(<<prefix, number>>) ELSE Nothing

\* a faulty variant: every designator takes the fallback, so the order is
\* the order of the strings
refdes_key_lexical(ref) == <<ref, 0>>

refdes_key(ref) ==
    LET match == ReMatch(ref)
    IN IF match.some THEN <<match.val[1], IntOf(match.val[2])>> ELSE <<ref, 0>>

\* k1 < k2 for two (str, int) tuples
KeyLess(k1, k2) ==
    \/ StrLess(k1[1], k2[1])
    \/ k1[1] = k2[1] /\ k1[2] < k2[2]

\* sorted(xs, key=...), on the sequence of (key, x) pairs: each element is
\* inserted after every element that is not greater, so the sort is stable
RECURSIVE Insert(_, _)
Insert(kx, done) ==
    IF done = <<>> THEN <<kx>>
    ELSE IF KeyLess(kx[1], done[1][1]) THEN <<kx>> \o done
    ELSE <<done[1]>> \o Insert(kx, Tail(done))
RECURSIVE SortPairs(_)
SortPairs(kxs) ==
    IF kxs = <<>> THEN <<>>
    ELSE Insert(kxs[Len(kxs)], SortPairs(SubSeq(kxs, 1, Len(kxs) - 1)))
Sorted(xs, keys) ==
    LET done == SortPairs([i \in DOMAIN xs |-> <<keys[i], xs[i]>>])
    IN [i \in DOMAIN done |-> done[i][2]]

\* a faulty variant: the vertical axis is not inverted
calc_position_unflipped(center, origin) ==
    <<RatSub(center[1], origin[1]), RatSub(center[2], origin[2])>>

calc_position(center, origin) ==
    <<RatSub(center[1], origin[1]),
      RatMul(RatInt(-1), RatSub(center[2], origin[2]))>>

get_position(p, s) ==
    LET origin == s.origin
        center == <<Round4(ToMM(p.center[1])), Round4(ToMM(p.center[2]))>>
        position == calc_position(center, origin)
    IN <<Round4(position[1]), Round4(position[2])>>

\* BOX2I.GetCenter of the board outline
BBoxCenter(bbox) ==
    <<bbox.left + (bbox.right - bbox.left) \div 2,
      bbox.top + (bbox.bottom - bbox.top) \div 2>>

get_origin_by_mode(b, modename) ==
    LET bbox == b.edges
        mode == Upper(modename)
        origin ==
            IF mode = <<"O","R","I","G","I","N">> THEN Some(<<0, 0>>)
            ELSE IF mode = <<"D","R","I","L","L">> THEN Some(b.aux_origin)
            ELSE IF mode = <<"C","E","N","T","E","R">> THEN Some(BBoxCenter(bbox))
            ELSE IF mode = <<"B","O","T","T","O","M","L","E","F","T">>
                 THEN Some(<<bbox.left, bbox.bottom>>)
            ELSE IF mode = <<"B","O","T","T","O","M","R","I","G","H","T">>
                 THEN Some(<<bbox.right, bbox.bottom>>)
            ELSE IF mode = <<"T","O","P","L","E","F","T">>
                 THEN Some(<<bbox.left, bbox.top>>)
            ELSE IF mode = <<"T","O","P","R","I","G","H","T">>
                 THEN Some(<<bbox.right, bbox.top>>)
            ELSE Nothing
    IN IF ~origin.some THEN Raised("ValueError")
       ELSE Returned(<<ToMM(origin.val[1]), ToMM(origin.val[2])>>)

\* fp.GetFieldByName(name): the field's text, or None when there is none
GetFieldByName(fp, name) ==
    IF name \in DOMAIN fp.fields THEN Some(fp.fields[name]) ELSE Nothing

\* a faulty variant: the text of None itself is inserted
get_field_str_none(fp, name) ==
    LET field == GetFieldByName(fp, name)
    IN IF field.some THEN field.val ELSE <<"N","o","n","e">>

\* None has no GetText: the AttributeError is caught
get_field(fp, name) ==
    LET field == GetFieldByName(fp, name)
    IN IF field.some THEN field.val ELSE <<>>

\* returns the size and the footprint as the call leaves it
get_footprint_size(fp) ==
    LET rot == fp.orientation
        zeroed == [fp EXCEPT !.orientation = 0]
    IN IF ~fp.courtyard.ok
       THEN [ok |-> FALSE, err |-> "RuntimeError", fp |-> zeroed]
       ELSE [ok |-> TRUE,
             val |-> <<ToMM(fp.courtyard.width), ToMM(fp.courtyard.height)>>,
             fp |-> [zeroed EXCEPT !.orientation = rot]]

get_footprint_and_library(fp) ==
    LET field == GetFieldByName(fp, "Footprint")
    IN IF field.some /\ ":" \in Range(field.val)
       THEN LET parts == Split(field.val, ":")
            IN IF Len(parts) = 2 THEN Returned(<<parts[1], parts[2]>>)
               ELSE Raised("ValueError")
       ELSE Returned(<<<<>>, <<>>>>)

\* the keys of _fields, in the order of the dict
FieldOrder ==
    <<"ref des", "side", "x", "y", "rotation", "type", "x size", "y size",
      "value", "Manufacturer Part Number", "DNP", "populate", "footprint",
      "library">>

\* _fields[key](fp, settings=settings): the value, and the footprint as the
\* call leaves it
Keep(fp, v) == [ok |-> TRUE, val |-> v, fp |-> fp]
Pick(r, fp, k) ==
    IF r.ok THEN [ok |-> TRUE, val |-> r.val[k], fp |-> fp]
    ELSE [ok |-> FALSE, err |-> r.err, fp |-> fp]
FieldValue(key, fp, s) ==
    CASE key = "ref des" -> Keep(fp, fp.ref)
      [] key = "side" -> Keep(fp, IF fp.layer # "F_Cu" THEN "bottom" ELSE "top")
      [] key = "x" -> Keep(fp, get_position(fp, s)[1])
      [] key = "y" -> Keep(fp, get_position(fp, s)[2])
      [] key = "rotation" -> Keep(fp, fp.orientation)
      [] key = "type" -> Keep(fp, IF fp.through_hole THEN "PTH" ELSE "SMT")
      [] key = "x size" ->
            LET r == get_footprint_size(fp) IN Pick(r, r.fp, 1)
      [] key = "y size" ->
            LET r == get_footprint_size(fp) IN Pick(r, r.fp, 2)
      [] key = "value" -> Keep(fp, fp.value)
      [] key = "Manufacturer Part Number" ->
            Keep(fp, get_field(fp, "Manufacturer Part Number"))
      [] key = "DNP" -> Keep(fp, IF fp.dnp THEN 1 ELSE 0)
      [] key = "populate" -> Keep(fp, IF ~fp.dnp THEN 1 ELSE 0)
      [] key = "footprint" -> Pick(get_footprint_and_library(fp), fp, 2)
      [] key = "library" -> Pick(get_footprint_and_library(fp), fp, 1)

\* the dict comprehension of build_footprint_report for one footprint: the
\* fields are computed in the order of _fields and the first one to raise
\* ends the comprehension.  row maps each key computed so far to its value.
RECURSIVE RowFrom(_, _, _, _)
RowFrom(k, fp, s, row) ==
    IF k > Len(FieldOrder) THEN [ok |-> TRUE, val |-> row, fp |-> fp]
    ELSE LET r == FieldValue(FieldOrder[k], fp, s)
         IN IF ~r.ok THEN [ok |-> FALSE, err |-> r.err, fp |-> r.fp]
            ELSE RowFrom(k + 1, r.fp, s,
                         [key \in (DOMAIN row) \cup {FieldOrder[k]} |->
                            IF key = FieldOrder[k] THEN r.val ELSE row[key]])
EmptyRow == [key \in {} |-> None]
Row(fp, s) == RowFrom(1, fp, s, EmptyRow)

\* pd.DataFrame(report): the columns are the keys of the rows, column-major
DataFrame(report) ==
    IF report = <<>> THEN [columns |-> <<>>, data |-> <<>>]
    ELSE [columns |-> FieldOrder,
          data |-> [c \in DOMAIN FieldOrder |->
                      [r \in DOMAIN report |-> report[r][FieldOrder[c]]]]]

ColumnIndex(frame, name) == CHOOSE c \in DOMAIN frame.columns : frame.columns[c] = name
HasColumn(frame, name) == name \in Range(frame.columns)

ConvertedFields == <<"x", "y", "x size", "y size">>

\* df[field] = [convert_units(pt, unit) for pt in df[field]], for the four
\* fields in turn
RECURSIVE ConvertColumns(_, _, _)
ConvertColumns(k, frame, unit) ==
    IF k > Len(ConvertedFields) THEN Returned(frame)
    ELSE IF ~HasColumn(frame, ConvertedFields[k]) THEN Raised("KeyError")
    ELSE LET c == ColumnIndex(frame, ConvertedFields[k])
             col == frame.data[c]
         IN IF \E r \in DOMAIN col : ~convert_units(col[r], unit).ok
            THEN Raised("ValueError")
            ELSE ConvertColumns(k + 1,
                     [frame EXCEPT !.data[c] =
                         [r \in DOMAIN col |-> convert_units(col[r], unit).val]],
                     unit)

\* name_map is the dict as the sequence of its (key, value) items
MapKeys(name_map) == [i \in DOMAIN name_map |-> name_map[i][1]]
MapGet(name_map, h) ==
    IF \E i \in DOMAIN name_map : name_map[i][1] = h
    THEN name_map[CHOOSE i \in DOMAIN name_map : name_map[i][1] = h][2]
    ELSE h

\* a faulty variant: the columns are renamed but stay in the order of the
\* frame
translate_output_frame_order(fd, frame) ==
    LET converted == ConvertColumns(1, frame, fd.units)
    IN IF ~converted.ok THEN converted
       ELSE LET keys == MapKeys(fd.name_map)
                kept == SelectSeq(converted.val.columns,
                                  LAMBDA h : h \in Range(keys))
            IN IF \E i \in DOMAIN keys : ~HasColumn(converted.val, keys[i])
               THEN Raised("KeyError")
               ELSE Returned(
                      [columns |-> [i \in DOMAIN kept |-> MapGet(fd.name_map, kept[i])],
                       data |-> [i \in DOMAIN kept |->
                                   converted.val.data[ColumnIndex(converted.val, kept[i])]]])

translate_output(fd, frame) ==
    LET name_map == fd.name_map
        unit == fd.units
        converted == ConvertColumns(1, frame, unit)
    IN IF ~converted.ok THEN converted
       ELSE LET keys == MapKeys(name_map)
            IN IF \E i \in DOMAIN keys : ~HasColumn(converted.val, keys[i])
               THEN Raised("KeyError")
               ELSE Returned(
                      [columns |-> [i \in DOMAIN keys |-> MapGet(name_map, keys[i])],
                       data |-> [i \in DOMAIN keys |->
                                   converted.val.data[ColumnIndex(converted.val, keys[i])]]])

Str_BOTTOMLEFT == <<"B","O","T","T","O","M","L","E","F","T">>
Str_DRILL == <<"D","R","I","L","L">>
Str_macrofab == <<"m","a","c","r","o","f","a","b">>
Str_default == <<"d","e","f","a","u","l","t">>

macrofab_name_map ==
    << <<"ref des", "Designator">>, <<"x", "X-Loc">>, <<"y", "Y-Loc">>,
       <<"rotation", "Rotation">>, <<"side", "Side">>, <<"type", "Type">>,
       <<"x size", "X-Size">>, <<"y size", "Y-Size">>, <<"value", "Value">>,
       <<"footprint", "Footprint">>, <<"populate", "Populate">>,
       <<"Manufacturer Part Number", "Manufacturer Part Number">> >>

default_name_map ==
    << <<"ref des", "ref des">>, <<"side", "side">>, <<"x", "x">>, <<"y", "y">>,
       <<"rotation", "rotation">>, <<"type", "type">>, <<"x size", "x size">>,
       <<"y size", "y size">>, <<"value", "value">>, <<"footprint", "footprint">>,
       <<"library", "library">>, <<"DNP", "DNP">>,
       <<"Manufacturer Part Number", "Manufacturer Part Number">> >>

\* output_formats, as the sequence of its (name, definition) items
output_formats ==
    << <<Str_macrofab, [origin_mode |-> Str_BOTTOMLEFT,
                        name_map |-> macrofab_name_map,
                        units |-> "thou"]>>,
       <<Str_default, [origin_mode |-> Str_DRILL,
                       name_map |-> default_name_map,
                       units |-> "mm"]>> >>

FormatNames == {output_formats[i][1] : i \in DOMAIN output_formats}
FormatNamed(name) ==
    output_formats[CHOOSE i \in DOMAIN output_formats : output_formats[i][1] = name][2]

-----------------------------------------------------------------------------
(* file_io.py                                                              *)

\* a dict of keyword arguments is a function from its keys; a value is the
\* text of the Python literal
EmptyDict == [k \in {} |-> None]
\* d.update(e)
Update(d, e) ==
    [k \in (DOMAIN d) \cup (DOMAIN e) |-> IF k \in DOMAIN e THEN e[k] ELSE d[k]]
\* d[key] = v
SetItem(d, key, v) ==
    [k \in (DOMAIN d) \cup {key} |-> IF k = key THEN v ELSE d[k]]

Ext_xyrs == <<"x","y","r","s">>
Ext_csv == <<"c","s","v">>
Ext_txt == <<"t","x","t">>
Ext_xls == <<"x","l","s">>
Ext_xlsx == <<"x","l","s","x">>
Ext_xlsm == <<"x","l","s","m">>
Ext_xlsb == <<"x","l","s","b">>
Ext_ods == <<"o","d","s">>
Ext_odt == <<"o","d","t">>
Ext_odf == <<"o","d","f">>

ExcelKwargs == [k \in {"sheet_name", "header", "skiprows"} |-> "0"]

get_supported_file_types_df ==
    << [title |-> "text",
        kwargs |-> [k \in {"header", "index", "quotechar", "quoting", "engine",
                           "skip_blank_lines", "sep", "float_format"} |->
                      CASE k = "header" -> "0"
                        [] k = "index" -> "False"
                        [] k = "quotechar" -> "'\"'"
                        [] k = "quoting" -> "csv.QUOTE_MINIMAL"
                        [] k = "engine" -> "'python'"
                        [] k = "skip_blank_lines" -> "True"
                        [] k = "sep" -> "'\\t'"
                        [] k = "float_format" -> "'%.2f'"],
        write_kwargs |-> Some([k \in {"sep", "index", "header", "float_format",
                                      "quotechar", "quoting"} |->
                      CASE k = "sep" -> "'\\t'"
                        [] k = "index" -> "False"
                        [] k = "header" -> "True"
                        [] k = "float_format" -> "'%.2f'"
                        [] k = "quotechar" -> "'\"'"
                        [] k = "quoting" -> "csv.QUOTE_ALL"]),
        extensions |-> <<Ext_xyrs>>,
        writedf |-> "pd.DataFrame.to_csv",
        readf |-> "read_csv_to_df"],
       [title |-> "text",
        kwargs |-> [k \in {"header", "skipinitialspace", "index_col", "comment",
                           "quotechar", "quoting", "engine", "skip_blank_lines"} |->
                      CASE k = "header" -> "0"
                        [] k = "skipinitialspace" -> "True"
                        [] k = "index_col" -> "None"
                        [] k = "comment" -> "'#'"
                        [] k = "quotechar" -> "'\"'"
                        [] k = "quoting" -> "csv.QUOTE_MINIMAL"
                        [] k = "engine" -> "'python'"
                        [] k = "skip_blank_lines" -> "True"],
        write_kwargs |-> Some([k \in {"index", "header", "quotechar", "quoting"} |->
                      CASE k = "index" -> "False"
                        [] k = "header" -> "True"
                        [] k = "quotechar" -> "'\"'"
                        [] k = "quoting" -> "csv.QUOTE_MINIMAL"]),
        extensions |-> <<Ext_csv, Ext_txt>>,
        writedf |-> "pd.DataFrame.to_csv",
        readf |-> "read_csv_to_df"],
       [title |-> "excel",
        kwargs |-> ExcelKwargs,
        write_kwargs |-> Nothing,
        extensions |-> <<Ext_xls, Ext_xlsx, Ext_xlsm, Ext_xlsb>>,
        writedf |-> "pd.DataFrame.to_excel",
        readf |-> "pd.read_excel"],
       [title |-> "ods",
        kwargs |-> ExcelKwargs,
        write_kwargs |-> Nothing,
        extensions |-> <<Ext_ods, Ext_odt, Ext_odf>>,
        writedf |-> None,
        readf |-> "read_ods_format_to_df"] >>

\* Path(fname).name: the last component of the path
PathName(fname) ==
    LET parts == SelectSeq(Split(fname, "/"), LAMBDA c : c # <<>> /\ c # <<".">>)
    IN IF parts = <<>> THEN <<>> ELSE parts[Len(parts)]

\* Path(fname).suffix: from the last dot of the name, unless that dot is the
\* first or the last character of the name
PathSuffix(fname) ==
    LET name == PathName(fname)
        dots == {i \in DOMAIN name : name[i] = "."}
    IN IF dots = {} THEN <<>>
       ELSE LET i == CHOOSE k \in dots : \A j \in dots : j <= k
            IN IF 1 < i /\ i < Len(name) THEN SubSeq(name, i, Len(name)) ELSE <<>>

ExtensionOf(fname) == Lower(Strip(PathSuffix(fname), "."))

\* the first entry of the registry whose extensions hold ext
Matches(ext) ==
    {i \in DOMAIN get_supported_file_types_df :
        ext \in Range(get_supported_file_types_df[i].extensions)}
FirstMatch(ext) == CHOOSE i \in Matches(ext) : \A j \in Matches(ext) : i <= j

\* an invocation of a reader or writer of the registry, or of pandas
Invocation(f, fname, kwargs) == [fn |-> f, fname |-> fname, kwargs |-> kwargs]

\* read_csv_to_df(fname, **kwargs): the call of pd.read_csv it makes
read_csv_to_df(fname, kwargs) ==
    LET k1 == IF "delimiter" \in DOMAIN kwargs /\ "sep" \notin DOMAIN kwargs
              THEN SetItem(kwargs, "sep", kwargs["delimiter"]) ELSE kwargs
        k2 == SetItem(k1, "delimiter", "None")
    IN IF "sep" \in DOMAIN k2 THEN Returned(Invocation("pd.read_csv", fname, k2))
       ELSE IF "engine" \in DOMAIN k2 THEN Raised("TypeError")
       ELSE Returned(Invocation("pd.read_csv", fname,
                        SetItem(SetItem(k2, "sep", "None"), "engine", "'python'")))

\* read_file_to_df(fname, **kwargs): the invocations made, and whether the
\* search found a reader.  kwargs is the dict of the keyword arguments, never
\* None, so the entry's defaults are not used.
read_file_to_df(fname, kwargs) ==
    LET ext == ExtensionOf(fname)
    IN IF Matches(ext) = {} THEN [ok |-> FALSE, err |-> "UserWarning", calls |-> <<>>]
       ELSE LET reader == get_supported_file_types_df[FirstMatch(ext)]
                first == Invocation(reader.readf, fname, kwargs)
            IN IF reader.readf = "read_csv_to_df"
               THEN LET inner == read_csv_to_df(fname, kwargs)
                    IN IF inner.ok
                       THEN [ok |-> TRUE, calls |-> <<first, inner.val>>]
                       ELSE [ok |-> FALSE, err |-> inner.err, calls |-> <<first>>]
               ELSE [ok |-> TRUE, calls |-> <<first>>]

\* a faulty variant: the writer is called without "assert writer"
write_unasserted(frame, fname, kwargs) ==
    LET ext == ExtensionOf(fname)
    IN IF Matches(ext) = {} THEN [ok |-> FALSE, err |-> "TypeError", calls |-> <<>>]
       ELSE LET value == get_supported_file_types_df[FirstMatch(ext)]
                defaults == IF value.write_kwargs.some THEN value.write_kwargs.val
                            ELSE value.kwargs
            IN [ok |-> TRUE,
                calls |-> <<[fn |-> value.writedf, fname |-> fname,
                             kwargs |-> Update(kwargs, defaults), df |-> frame]>>]

\* write(df, fname, **kwargs): the invocation of the writer, if one is made
write(frame, fname, kwargs) ==
    LET ext == ExtensionOf(fname)
    IN IF Matches(ext) = {} THEN [ok |-> FALSE, err |-> "AssertionError", calls |-> <<>>]
       ELSE LET value == get_supported_file_types_df[FirstMatch(ext)]
                writer == value.writedf
                defaults == IF value.write_kwargs.some THEN value.write_kwargs.val
                            ELSE value.kwargs
                merged == Update(kwargs, defaults)
            IN IF writer = None
               THEN [ok |-> FALSE, err |-> "AssertionError", calls |-> <<>>]
               ELSE [ok |-> TRUE,
                     calls |-> <<[fn |-> writer, fname |-> fname,
                                  kwargs |-> merged, df |-> frame]>>]

-----------------------------------------------------------------------------
(* cli.py: main_cli, one action per statement                              *)

libvars == <<call, ret>>

\* an uncaught exception ends the process with a non-zero status
NoError == [type |-> None, at |-> None]
Raise(e) ==
    /\ pc' = "raised"
    /\ error' = [type |-> e, at |-> pc]
    /\ exit_code' = 1

\* click.Choice(output_formats.keys(), case_sensitive=False): the choice
\* that equals the value when both are lower-cased, or a usage error
ParseArgs ==
    /\ pc = "parse"
    /\ IF \E c \in FormatNames : Lower(c) = Lower(argv.format)
       THEN /\ output_format' =
                  CHOOSE c \in FormatNames : Lower(c) = Lower(argv.format)
            /\ pc' = "check_path"
            /\ UNCHANGED <<error, exit_code>>
       ELSE /\ pc' = "raised"
            /\ error' = [type |-> "UsageError", at |-> pc]
            /\ exit_code' = 2
            /\ UNCHANGED output_format
    /\ UNCHANGED <<argv, pcbfile, board, footprints, format_dict, settings,
                   lines, df, invoked, libvars>>

\* a faulty variant: the path is not checked
CheckPath_unchecked ==
    /\ pc = "check_path"
    /\ pc' = "load"
    /\ UNCHANGED <<argv, pcbfile, board, output_format, footprints, format_dict,
                   settings, lines, df, invoked, error, exit_code, libvars>>

\* assert board_path.exists()
CheckPath ==
    /\ pc = "check_path"
    /\ IF argv.pcb_exists
       THEN pc' = "load" /\ UNCHANGED <<error, exit_code>>
       ELSE Raise("AssertionError")
    /\ UNCHANGED <<argv, pcbfile, board, output_format, footprints, format_dict,
                   settings, lines, df, invoked, libvars>>

\* a faulty variant: board-only footprints are not left out
Eligible_with_board_only(fp) ==
    ~fp.excluded_from_bom /\ ~fp.excluded_from_pos

Eligible(fp) ==
    ~fp.excluded_from_bom /\ ~fp.board_only /\ ~fp.excluded_from_pos

\* board = pcbnew.LoadBoard(...); unsorted_footprints = [fp for fp in ...]
LoadBoard ==
    /\ pc = "load"
    /\ board' = pcbfile
    /\ footprints' = SelectSeq([i \in DOMAIN pcbfile.footprints |-> i],
                               LAMBDA i : Eligible(pcbfile.footprints[i]))
    /\ pc' = "sort"
    /\ UNCHANGED <<argv, pcbfile, output_format, format_dict, settings, lines,
                   df, invoked, error, exit_code, libvars>>

\* footprints = sorted(unsorted_footprints, key=...)
SortFootprints ==
    /\ pc = "sort"
    /\ footprints' = Sorted(footprints,
                            [i \in DOMAIN footprints |->
                               refdes_key(board.footprints[footprints[i]].ref)])
    /\ pc' = "assert_nonempty"
    /\ UNCHANGED <<argv, pcbfile, board, output_format, format_dict, settings,
                   lines, df, invoked, error, exit_code, libvars>>

\* assert len(footprints) > 0
AssertNonEmpty ==
    /\ pc = "assert_nonempty"
    /\ IF Len(footprints) > 0
       THEN pc' = "lookup_format" /\ UNCHANGED <<error, exit_code>>
       ELSE Raise("AssertionError")
    /\ UNCHANGED <<argv, pcbfile, board, output_format, footprints, format_dict,
                   settings, lines, df, invoked, libvars>>

\* format_dict = output_formats[output_format.lower()]
LookupFormat ==
    /\ pc = "lookup_format"
    /\ IF Lower(output_format) \in FormatNames
       THEN /\ format_dict' = FormatNamed(Lower(output_format))
            /\ pc' = "origin"
            /\ UNCHANGED <<error, exit_code>>
       ELSE Raise("KeyError") /\ UNCHANGED format_dict
    /\ UNCHANGED <<argv, pcbfile, board, output_format, footprints, settings,
                   lines, df, invoked, libvars>>

\* origin_mode = format_dict.get("origin_mode", "DRILL");
\* settings.origin = get_origin_by_mode(board, origin_mode)
ResolveOrigin ==
    /\ pc = "origin"
    /\ LET origin_mode == IF "origin_mode" \in DOMAIN format_dict
                          THEN format_dict.origin_mode ELSE Str_DRILL
           r == get_origin_by_mode(board, origin_mode)
       IN IF r.ok
          THEN /\ settings' = [origin |-> r.val]
               /\ lines' = <<>>
               /\ pc' = "build"
               /\ UNCHANGED <<error, exit_code>>
          ELSE Raise(r.err) /\ UNCHANGED <<settings, lines>>
    /\ UNCHANGED <<argv, pcbfile, board, output_format, footprints, format_dict,
                   df, invoked, libvars>>

\* build_footprint_report: one pass of "for p in footprints"
BuildRow ==
    /\ pc = "build"
    /\ Len(lines) < Len(footprints)
    /\ LET p == footprints[Len(lines) + 1]
           r == Row(board.footprints[p], settings)
       IN /\ board' = [board EXCEPT !.footprints[p] = r.fp]
          /\ IF r.ok
             THEN lines' = Append(lines, r.val) /\ UNCHANGED <<pc, error, exit_code>>
             ELSE Raise(r.err) /\ UNCHANGED lines
    /\ UNCHANGED <<argv, pcbfile, output_format, footprints, format_dict,
                   settings, df, invoked, libvars>>

\* return lines; report_df = pd.DataFrame(report)
BuildDone ==
    /\ pc = "build"
    /\ Len(lines) = Len(footprints)
    /\ df' = DataFrame(lines)
    /\ pc' = "translate"
    /\ UNCHANGED <<argv, pcbfile, board, output_format, footprints, format_dict,
                   settings, lines, invoked, error, exit_code, libvars>>

\* df = translate_output(format_dict, report_df)
Translate ==
    /\ pc = "translate"
    /\ LET r == translate_output(format_dict, df)
       IN IF r.ok
          THEN df' = r.val /\ pc' = "write" /\ UNCHANGED <<error, exit_code>>
          ELSE Raise(r.err) /\ UNCHANGED df
    /\ UNCHANGED <<argv, pcbfile, board, output_format, footprints, format_dict,
                   settings, lines, invoked, libvars>>

\* file_io.write(df, out).  What the writer of pandas does with the file is
\* not modelled: it returns or it raises.
Write ==
    /\ pc = "write"
    /\ LET r == write(df, argv.out, EmptyDict)
       IN /\ invoked' = invoked \o r.calls
          /\ IF r.ok
             THEN \E written \in BOOLEAN :
                     IF written
                     THEN pc' = "exit" /\ UNCHANGED <<error, exit_code>>
                     ELSE Raise("OSError")
             ELSE Raise(r.err)
    /\ UNCHANGED <<argv, pcbfile, board, output_format, footprints, format_dict,
                   settings, lines, df, libvars>>

\* return sys.exit(0)
Exit ==
    /\ pc = "exit"
    /\ pc' = "exited"
    /\ exit_code' = 0
    /\ UNCHANGED <<argv, pcbfile, board, output_format, footprints, format_dict,
                   settings, lines, df, invoked, error, libvars>>

Next ==
    \/ ParseArgs
    \/ CheckPath
    \/ LoadBoard
    \/ SortFootprints
    \/ AssertNonEmpty
    \/ LookupFormat
    \/ ResolveOrigin
    \/ BuildRow
    \/ BuildDone
    \/ Translate
    \/ Write
    \/ Exit

-----------------------------------------------------------------------------
(* The boards and command lines the runs are drawn from                    *)

MaxFootprints == 2
MaxSorted == 4
MaxPlaced == 2
MaxRows == 2

Text_Footprint == <<"R","_","S","M","D",":","R","_","0","6","0","3">>
Text_NoColon == <<"R","_","0","6","0","3">>
Text_TwoColons == <<"a",":","b",":","c">>
Text_MPN == <<"R","C","0","6","0","3">>

\* a footprint's custom fields, from the text of each or Nothing
FieldsOf(footprint, mpn) ==
    [k \in (IF footprint.some THEN {"Footprint"} ELSE {})
           \cup (IF mpn.some THEN {"Manufacturer Part Number"} ELSE {}) |->
        IF k = "Footprint" THEN footprint.val ELSE mpn.val]

\* R1: an eligible surface-mount part on the top side, turned by 90 degrees
Part_R1 ==
    [ref |-> <<"R","1">>,
     excluded_from_bom |-> FALSE, board_only |-> FALSE, excluded_from_pos |-> FALSE,
     center |-> <<10000000, 10000000>>,
     orientation |-> 90,
     layer |-> "F_Cu",
     through_hole |-> FALSE,
     value |-> <<"1","0","k">>,
     fields |-> FieldsOf(Some(Text_Footprint), Some(Text_MPN)),
     dnp |-> FALSE,
     courtyard |-> [ok |-> TRUE, width |-> 1600000, height |-> 800000]]

Part_C2 ==
    [Part_R1 EXCEPT !.ref = <<"C","2">>, !.center = <<20000000, 5000000>>,
                    !.orientation = 0, !.layer = "B_Cu",
                    !.value = <<"1","u","F">>, !.dnp = TRUE]

\* the parts of the general runs: every exclusion flag, a designator without
\* digits, a missing part number, every shape of the Footprint field, and a
\* courtyard that cannot be measured
Parts ==
    { Part_R1,
      Part_C2,
      [Part_R1 EXCEPT !.ref = <<"R","2">>, !.excluded_from_bom = TRUE],
      [Part_R1 EXCEPT !.ref = <<"H","1">>, !.board_only = TRUE,
                      !.through_hole = TRUE],
      [Part_R1 EXCEPT !.ref = <<"F","I","D","1">>, !.excluded_from_pos = TRUE],
      [Part_R1 EXCEPT !.ref = <<"T","P">>, !.orientation = 270,
                      !.fields = FieldsOf(Nothing, Nothing)],
      [Part_R1 EXCEPT !.ref = <<"U","1">>, !.orientation = 180,
                      !.fields = FieldsOf(Some(Text_NoColon), Nothing)],
      [Part_R1 EXCEPT !.ref = <<"J","1">>,
                      !.fields = FieldsOf(Some(Text_TwoColons), Some(Text_MPN))],
      [Part_R1 EXCEPT !.ref = <<"Q","1">>, !.courtyard = [ok |-> FALSE]] }

\* the parts of the sorting runs differ in the designator only
SortedRefs ==
    { <<"R","1","0">>, <<"R","2">>, <<"C","1">>, <<"R","1">>, <<"T","P">>,
      <<"R","0","1">> }
SortParts == {[Part_R1 EXCEPT !.ref = r] : r \in SortedRefs}

\* the parts of the position runs differ in the centre; the last one is off
\* the grid of 0.0001 mm
Centers ==
    { <<10000000, 10000000>>, <<20000000, 5000000>>, <<5000000, 10000000>>,
      <<10000040, 10000160>> }
PosParts ==
    {[Part_R1 EXCEPT !.center = c] : c \in Centers}
        \cup {[Part_C2 EXCEPT !.center = c] : c \in Centers}
AuxOrigins == { <<5000000, 5000000>>, <<1000000, 2000000>>, <<5000040, -160>> }
Outlines ==
    { [left |-> 0, right |-> 100000000, top |-> 0, bottom |-> 50000000],
      [left |-> 2000040, right |-> 42000000, top |-> -1000000, bottom |-> 30000160] }

SeqsUpTo(S, n) == UNION {[1..k -> S] : k \in 0..n}

BoardOf(fps, aux, outline) ==
    [footprints |-> fps, aux_origin |-> aux, edges |-> outline]
Aux_5_5 == <<5000000, 5000000>>
Outline_100_50 == [left |-> 0, right |-> 100000000, top |-> 0, bottom |-> 50000000]

Path_xyrs == <<"o","u","t","/","b",".","x","y","r","s">>
Path_ods == <<"b",".","o","d","s">>
Path_XLSX == <<"B",".","X","L","S","X">>
Path_noext == <<"o","u","t",".","d","/","b">>
Arg_Default == <<"D","e","f","a","u","l","t">>
Arg_MacroFab == <<"M","a","c","r","o","F","a","b">>
Arg_gerber == <<"g","e","r","b","e","r">>

\* main_cli is about to run on the command line a and the board file b
Start(a, b) ==
    /\ argv = a
    /\ pcbfile = b
    /\ board = None
    /\ pc = "parse"
    /\ output_format = None
    /\ footprints = <<>>
    /\ format_dict = None
    /\ settings = None
    /\ lines = <<>>
    /\ df = None
    /\ invoked = <<>>
    /\ error = NoError
    /\ exit_code = None
    /\ call = None
    /\ ret = None

Init ==
    \E a \in [pcb_exists : BOOLEAN,
              out : {Path_xyrs, Path_ods, Path_XLSX, Path_noext},
              format : {Arg_Default, Arg_MacroFab, Arg_gerber}],
       fps \in SeqsUpTo(Parts, MaxFootprints) :
        Start(a, BoardOf(fps, Aux_5_5, Outline_100_50))

Spec == Init /\ [][Next]_vars

InitSort ==
    \E fps \in SeqsUpTo(SortParts, MaxSorted) :
        Start([pcb_exists |-> TRUE, out |-> Path_xyrs, format |-> Arg_Default],
              BoardOf(fps, Aux_5_5, Outline_100_50))

SpecSort == InitSort /\ [][Next]_vars

InitPos ==
    \E f \in {Arg_Default, Arg_MacroFab},
       fps \in SeqsUpTo(PosParts, MaxPlaced),
       aux \in AuxOrigins, outline \in Outlines :
        Start([pcb_exists |-> TRUE, out |-> Path_xyrs, format |-> f],
              BoardOf(fps, aux, outline))

SpecPos == InitPos /\ [][Next]_vars

-----------------------------------------------------------------------------
(* Direct calls of translate_output, write and read_file_to_df             *)

\* no run of main_cli: the function named by call is about to be called
StartCall(c) ==
    /\ argv = None
    /\ pcbfile = None
    /\ board = None
    /\ pc = "call"
    /\ output_format = None
    /\ footprints = <<>>
    /\ format_dict = None
    /\ settings = None
    /\ lines = <<>>
    /\ df = None
    /\ invoked = <<>>
    /\ error = NoError
    /\ exit_code = None
    /\ call = c
    /\ ret = None

clivars == <<argv, pcbfile, board, output_format, footprints, format_dict,
             settings, lines, df, error, exit_code>>

CallTranslate ==
    /\ pc = "call"
    /\ call.fn = "translate_output"
    /\ ret' = translate_output(call.format_dict, call.df)
    /\ pc' = "returned"
    /\ UNCHANGED <<clivars, invoked, call>>

CallWrite ==
    /\ pc = "call"
    /\ call.fn = "write"
    /\ LET r == write(call.df, call.fname, call.kwargs)
       IN /\ invoked' = r.calls
          /\ ret' = [ok |-> r.ok]
    /\ pc' = "returned"
    /\ UNCHANGED <<clivars, call>>

CallRead ==
    /\ pc = "call"
    /\ call.fn = "read_file_to_df"
    /\ LET r == read_file_to_df(call.fname, call.kwargs)
       IN /\ invoked' = r.calls
          /\ ret' = [ok |-> r.ok]
    /\ pc' = "returned"
    /\ UNCHANGED <<clivars, call>>

\* format definitions: the registered two, and others of the same shape
SomeFormats ==
    { FormatNamed(Str_default),
      FormatNamed(Str_macrofab),
      [FormatNamed(Str_default) EXCEPT !.units = "mil"],
      [FormatNamed(Str_macrofab) EXCEPT !.units = "cm"],
      [origin_mode |-> Str_DRILL, units |-> "inch",
       name_map |-> << <<"y", "Up">>, <<"library", "Lib">>, <<"ref des", "Ref">> >>],
      [origin_mode |-> Str_DRILL, units |-> "mm",
       name_map |-> << <<"ref des", "Ref">>, <<"weight", "Weight">>, <<"x", "x">> >>],
      [origin_mode |-> Str_DRILL, units |-> "mm", name_map |-> <<>>] }

\* report rows: those of the parts whose fields can all be computed
SomeRows ==
    LET s == [origin |-> <<ToMM(Aux_5_5[1]), ToMM(Aux_5_5[2])>>]
    IN {Row(p, s).val : p \in {q \in Parts : Row(q, s).ok}}

InitTranslate ==
    \E fd \in SomeFormats, report \in SeqsUpTo(SomeRows, MaxRows) :
        StartCall([fn |-> "translate_output", format_dict |-> fd,
                   df |-> DataFrame(report)])

SpecTranslate == InitTranslate /\ [][CallTranslate]_vars

Path_XYRS == <<"a",".","b",".","X","y","R","s">>
Path_csv == <<".","/","b",".","c","s","v">>
Path_txt == <<"b",".","t","x","t">>
Path_xls == <<"b",".","x","l","s">>
Path_xlsm == <<"b",".","x","l","s","m">>
Path_xlsb == <<"b",".","x","l","s","b">>
Path_odt == <<"b",".","O","D","T">>
Path_odf == <<"b",".","o","d","f">>
Path_hidden == <<".","x","y","r","s">>
Path_dot == <<"b",".">>
Path_pdf == <<"b",".","p","d","f">>
Path_dir == <<"b",".","c","s","v","/">>

SomePaths ==
    { Path_xyrs, Path_XYRS, Path_csv, Path_txt, Path_xls, Path_XLSX, Path_xlsm,
      Path_xlsb, Path_ods, Path_odt, Path_odf, Path_noext, Path_hidden,
      Path_dot, Path_pdf, Path_dir }

\* keyword arguments a caller may give
SomeKwargs ==
    { EmptyDict,
      [k \in {"sep"} |-> "','"],
      [k \in {"delimiter"} |-> "';'"],
      [k \in {"header"} |-> "None"],
      [k \in {"sep", "float_format"} |-> IF k = "sep" THEN "';'" ELSE "'%.3f'"],
      [k \in {"engine"} |-> "'c'"] }

InitIO ==
    \E fname \in SomePaths, kwargs \in SomeKwargs :
        \/ StartCall([fn |-> "write",
                      df |-> [columns |-> <<"x">>, data |-> << <<RatInt(1)>> >>],
                      fname |-> fname, kwargs |-> kwargs])
        \/ StartCall([fn |-> "read_file_to_df", fname |-> fname, kwargs |-> kwargs])

NextIO == CallWrite \/ CallRead

SpecIO == InitIO /\ [][NextIO]_vars

-----------------------------------------------------------------------------
(* The properties                                                          *)

MPN == "Manufacturer Part Number"

\* the three exclusion flags of a footprint are all false
FlagFree(fp) ==
    fp.excluded_from_bom = FALSE /\ fp.board_only = FALSE
        /\ fp.excluded_from_pos = FALSE
FlagFreeOnBoard == {i \in DOMAIN pcbfile.footprints : FlagFree(pcbfile.footprints[i])}

\* build_footprint_report has returned
ReportBuilt ==
    \/ pc \in {"translate", "write", "exit", "exited"}
    \/ pc = "raised" /\ error.at \in {"translate", "write"}
\* build_footprint_report has raised
BuildRaised == pc = "raised" /\ error.at = "build"
\* the footprint whose row is being computed, or was when the build raised
Current == pcbfile.footprints[footprints[Len(lines) + 1]]

Colons(text) == Cardinality({i \in DOMAIN text : text[i] = ":"})
RatNeg(a) == <<-a[1], a[2]>>
\* |a - b| <= 1/10000
Within4(a, b) == LET d == RatSub(a, b) IN Abs(d[1]) * 10000 <= d[2]
\* a is a multiple of 1/10000
OnGrid4(a) == 10000 % a[2] = 0

\* C1: the report of a run holds exactly one row per footprint whose three
\* exclusion flags are all false, and no row for any other footprint.
ThmC1 ==
    /\ \A r \in DOMAIN lines :
          \E i \in FlagFreeOnBoard : pcbfile.footprints[i].ref = lines[r]["ref des"]
    /\ ReportBuilt =>
          /\ Len(lines) = Cardinality(FlagFreeOnBoard)
          /\ \A i \in DOMAIN pcbfile.footprints :
                Cardinality({r \in DOMAIN lines :
                               lines[r]["ref des"] = pcbfile.footprints[i].ref})
                  = Cardinality({j \in FlagFreeOnBoard :
                               pcbfile.footprints[j].ref = pcbfile.footprints[i].ref})

\* a finished run on a board with one flagged and one flag-free footprint
WitC1 ==
    /\ pc = "exited"
    /\ Len(pcbfile.footprints) = 2
    /\ Cardinality(FlagFreeOnBoard) = 1
    /\ Len(lines) = 1

RefsInOrder == [i \in DOMAIN footprints |-> pcbfile.footprints[footprints[i]].ref]
Example_Board == << <<"R","1","0">>, <<"R","2">>, <<"C","1">>, <<"R","1">> >>
Example_Sorted == << <<"C","1">>, <<"R","1">>, <<"R","2">>, <<"R","1","0">> >>

\* the key as the claim words it: (letter prefix, value of the digits that
\* follow) when the designator starts with letters followed by digits,
\* (designator, 0) otherwise
StartsWithLettersThenDigits(ref, a, b) ==
    /\ \A k \in 1..a : IsLetter(ref[k])
    /\ \A k \in (a + 1)..b : IsDigit(ref[k])
    /\ b = Len(ref) \/ ~IsDigit(ref[b + 1])
PrefixAndNumber(ref) ==
    IF \E a \in 1..Len(ref), b \in 2..Len(ref) :
          a < b /\ StartsWithLettersThenDigits(ref, a, b)
    THEN LET ab == CHOOSE ab \in (1..Len(ref)) \X (2..Len(ref)) :
                      ab[1] < ab[2] /\ StartsWithLettersThenDigits(ref, ab[1], ab[2])
         IN <<SubSeq(ref, 1, ab[1]), IntOf(SubSeq(ref, ab[1] + 1, ab[2]))>>
    ELSE <<ref, 0>>

\* C2: the rows are in ascending order of refdes_key of the designator, the
\* key being (letters, value of the digits) or (designator, 0); footprints
\* with equal keys keep their board order; [R10, R2, C1, R1] comes out as
\* [C1, R1, R2, R10]; a designator without digits sorts without an error.
ThmC2 ==
    /\ pc \notin {"parse", "check_path", "load", "sort"} =>
          /\ Len(footprints) = Cardinality(FlagFreeOnBoard)
          /\ {footprints[i] : i \in DOMAIN footprints} = FlagFreeOnBoard
          /\ \A i \in DOMAIN footprints :
                refdes_key(RefsInOrder[i]) = PrefixAndNumber(RefsInOrder[i])
          /\ \A i, j \in DOMAIN footprints :
                i < j =>
                  /\ ~KeyLess(PrefixAndNumber(RefsInOrder[j]),
                              PrefixAndNumber(RefsInOrder[i]))
                  /\ PrefixAndNumber(RefsInOrder[i]) = PrefixAndNumber(RefsInOrder[j])
                        => footprints[i] < footprints[j]
          /\ [i \in DOMAIN pcbfile.footprints |-> pcbfile.footprints[i].ref]
                 = Example_Board => RefsInOrder = Example_Sorted
          /\ \A r \in DOMAIN lines : lines[r]["ref des"] = RefsInOrder[r]
    /\ pc \in {"write", "exit", "exited"} => df.data[1] = RefsInOrder

\* the run on [R10, R2, C1, R1] has written [C1, R1, R2, R10]
WitC2 ==
    /\ pc = "exited"
    /\ [i \in DOMAIN pcbfile.footprints |-> pcbfile.footprints[i].ref] = Example_Board
    /\ invoked[1].df.data[1] = Example_Sorted

\* a board on which two footprints with equal keys (R01, R1) are sorted
WitC2Stable ==
    /\ pc = "exited"
    /\ \E i, j \in DOMAIN footprints :
          /\ i < j
          /\ RefsInOrder[i] # RefsInOrder[j]
          /\ refdes_key(RefsInOrder[i]) = refdes_key(RefsInOrder[j])

\* a step of the run before the write cannot succeed on this command line
\* and board
CannotSucceed ==
    \/ ~argv.pcb_exists
    \/ FlagFreeOnBoard = {}
    \/ Lower(argv.format) \notin {Str_default, Str_macrofab}
    \/ \E i \in FlagFreeOnBoard :
          \/ ~pcbfile.footprints[i].courtyard.ok
          \/ /\ "Footprint" \in DOMAIN pcbfile.footprints[i].fields
             /\ Colons(pcbfile.footprints[i].fields["Footprint"]) > 1

\* C3: the writer is invoked at most once, and only after the path check,
\* the non-empty check, the format lookup, the origin, the report and the
\* translation have succeeded; if one of them fails the run ends in failure
\* with no writer invoked; exit code 0 is reached only after the write.
ThmC3 ==
    /\ Len(invoked) <= 1
    /\ invoked # <<>> =>
          /\ ~CannotSucceed
          /\ pc \in {"exit", "exited"} \/ (pc = "raised" /\ error.at = "write")
          /\ Len(lines) = Cardinality(FlagFreeOnBoard)
          /\ invoked[1].df = df
          /\ translate_output(format_dict, DataFrame(lines)).ok
          /\ df = translate_output(format_dict, DataFrame(lines)).val
    /\ CannotSucceed => invoked = <<>> /\ pc \notin {"exit", "exited"}
    /\ pc = "raised" => exit_code # 0
    /\ pc = "exited" => exit_code = 0 /\ Len(invoked) = 1
    /\ pc \notin {"raised", "exited"} => exit_code = None

\* a run that wrote its file and ended with exit code 0
WitC3 == pc = "exited" /\ exit_code = 0 /\ Len(invoked) = 1

\* a run that failed in the report build, with no writer invoked
WitC3Failed == BuildRaised /\ exit_code = 1 /\ invoked = <<>>

\* the value of a position or size field in the unit of a format
InUnit(v, unit) ==
    IF unit = "mm" THEN v
    ELSE IF unit = "inch" THEN RatMul(v, Rat(10, 254))
    ELSE RatMul(v, Rat(10000, 254))

\* the column of field key of frame, as the translation to unit must show it
ExpectedColumn(frame, key, unit) ==
    LET col == frame.data[CHOOSE c \in DOMAIN frame.columns : frame.columns[c] = key]
    IN IF key \in {"x", "y", "x size", "y size"}
       THEN [r \in DOMAIN col |-> InUnit(col[r], unit)]
       ELSE col

WitC4Failed ==
    /\ pc = "returned"
    /\ call.fn = "translate_output"
    /\ call.df.columns # <<>>
    /\ \E i \in DOMAIN call.format_dict.name_map :
          call.format_dict.name_map[i][1] = "weight"
    /\ ~ret.ok

\* the writer the registry gives for a lower-case extension, None if none
WriterFor(ext) ==
    IF ext = <<"x","y","r","s">> \/ ext = <<"c","s","v">> \/ ext = <<"t","x","t">>
    THEN "pd.DataFrame.to_csv"
    ELSE IF ext \in { <<"x","l","s">>, <<"x","l","s","x">>, <<"x","l","s","m">>,
                      <<"x","l","s","b">> }
    THEN "pd.DataFrame.to_excel"
    ELSE None

\* C5: write dispatches on the lower-cased extension of the path: it invokes
\* the writer of the first entry of the registry that holds the extension
\* (for xyrs the delimited-text writer with a tab separator and the float
\* format %.2f); it fails, with no writer invoked, when no entry holds the
\* extension or the entry has no writer (ods, odt, odf).
ThmC5 ==
    (pc = "returned" /\ call.fn = "write") =>
    LET ext == Lower(Strip(PathSuffix(call.fname), "."))
    IN /\ IF WriterFor(ext) # None
          THEN /\ ret.ok
               /\ Len(invoked) = 1
               /\ invoked[1].fn = WriterFor(ext)
               /\ invoked[1].fname = call.fname
               /\ invoked[1].df = call.df
               /\ ext = <<"x","y","r","s">> =>
                     /\ invoked[1].kwargs["sep"] = "'\\t'"
                     /\ invoked[1].kwargs["float_format"] = "'%.2f'"
          ELSE ~ret.ok /\ invoked = <<>>
       /\ call.fname \in {Path_xyrs, Path_XYRS} => invoked # <<>>
       /\ call.fname \in {Path_ods, Path_odt, Path_odf, Path_pdf, Path_noext} =>
             invoked = <<>>

\* a write to a path in .XyRs, with a separator given by the caller
WitC5 ==
    /\ pc = "returned"
    /\ call.fn = "write"
    /\ call.fname = Path_XYRS
    /\ "sep" \in DOMAIN call.kwargs
    /\ Len(invoked) = 1

\* a write to a path in .ods, which failed
WitC5Failed ==
    /\ pc = "returned"
    /\ call.fn = "write"
    /\ call.fname = Path_ods
    /\ ~ret.ok

\* C6: read_file_to_df invokes the reader of the matched entry with the
\* entry's default read options merged under the caller's options: a default
\* key the caller did not give is passed with its default value, a key the
\* caller gave with the caller's value.
CexC6 ==
    (pc = "returned" /\ call.fn = "read_file_to_df"
        /\ Matches(ExtensionOf(call.fname)) # {}) =>
    LET entry == get_supported_file_types_df[FirstMatch(ExtensionOf(call.fname))]
    IN /\ invoked # <<>>
       /\ invoked[1].fn = entry.readf
       /\ \A k \in DOMAIN call.kwargs :
             k \in DOMAIN invoked[1].kwargs /\ invoked[1].kwargs[k] = call.kwargs[k]
       /\ \A k \in (DOMAIN entry.kwargs) \ (DOMAIN call.kwargs) :
             k \in DOMAIN invoked[1].kwargs /\ invoked[1].kwargs[k] = entry.kwargs[k]

\* C7: if the Footprint field is absent or its text has no colon, library
\* and footprint are both empty; if the text has one colon or more, the
\* extraction does not raise and library + ":" + footprint is the text.
CexC7 ==
    /\ \A r \in DOMAIN lines :
          LET fields == pcbfile.footprints[footprints[r]].fields
          IN IF "Footprint" \in DOMAIN fields /\ Colons(fields["Footprint"]) > 0
             THEN lines[r]["library"] \o <<":">> \o lines[r]["footprint"]
                      = fields["Footprint"]
             ELSE lines[r]["library"] = <<>> /\ lines[r]["footprint"] = <<>>
    /\ BuildRaised =>
          ~(/\ "Footprint" \in DOMAIN Current.fields
            /\ Colons(Current.fields["Footprint"]) > 0
            /\ error.type = "ValueError")

\* C8: a footprint without a "Manufacturer Part Number" field gets the empty
\* string in that field of its row, and the build goes on: it is no cause of
\* a failure, and the rows of all footprints are produced.
ThmC8 ==
    /\ \A r \in DOMAIN lines :
          LET fields == pcbfile.footprints[footprints[r]].fields
          IN IF MPN \in DOMAIN fields
             THEN lines[r][MPN] = fields[MPN]
             ELSE lines[r][MPN] = <<>>
    /\ BuildRaised =>
          \/ ~Current.courtyard.ok
          \/ /\ "Footprint" \in DOMAIN Current.fields
             /\ Colons(Current.fields["Footprint"]) > 1
    /\ ReportBuilt => Len(lines) = Len(footprints)

\* a finished run whose first row is of a footprint without the field, with
\* the row of another footprint built after it
WitC8 ==
    /\ pc = "exited"
    /\ Len(lines) = 2
    /\ MPN \notin DOMAIN pcbfile.footprints[footprints[1]].fields
    /\ lines[1][MPN] = <<>>
    /\ lines[2]["ref des"] # lines[1]["ref des"]

\* a finished run with a row of a footprint with the field and a row of one
\* without it
WitC8Mixed ==
    /\ pc = "exited"
    /\ \E r, q \in DOMAIN lines :
          /\ MPN \notin DOMAIN pcbfile.footprints[footprints[r]].fields
          /\ lines[q][MPN] # <<>>

\* C9: when build_footprint_report ends, by returning or by raising, every
\* footprint of the board has the orientation it had when the build began,
\* including when the measurement of a courtyard failed; the rotation of
\* each row is that orientation.
CexC9 ==
    /\ \A r \in DOMAIN lines :
          lines[r]["rotation"] = pcbfile.footprints[footprints[r]].orientation
    /\ (ReportBuilt \/ BuildRaised) =>
          \A i \in DOMAIN pcbfile.footprints :
             board.footprints[i].orientation = pcbfile.footprints[i].orientation

\* the origin of the run's format, resolved against the board
RunOrigin ==
    IF Lower(argv.format) = Str_default
    THEN <<ToMM(pcbfile.aux_origin[1]), ToMM(pcbfile.aux_origin[2])>>
    ELSE <<ToMM(pcbfile.edges.left), ToMM(pcbfile.edges.bottom)>>
\* the position the plain differences give for the footprint of row r
PlainX(r) ==
    RatSub(ToMM(pcbfile.footprints[footprints[r]].center[1]), RunOrigin[1])
PlainY(r) ==
    RatNeg(RatSub(ToMM(pcbfile.footprints[footprints[r]].center[2]), RunOrigin[2]))

\* C10: the position of a row before the unit conversion is x = cx - ox and
\* y = -(cy - oy), for the origin (ox, oy) of the format: the drill origin
\* for default, (left, bottom) of the outline for macrofab.
CexC10 ==
    \A r \in DOMAIN lines :
        lines[r]["x"] = PlainX(r) /\ lines[r]["y"] = PlainY(r)

\* C10 as amended: x and y are multiples of 0.0001 mm within 0.0001 mm of
\* cx - ox and -(cy - oy), and equal to them when the centre and the origin
\* are multiples of 0.0001 mm; drill origin (5,5) with centres (10,10) and
\* (20,5) gives (5,-5) and (15,0), origin (1,2) with centre (5,10) gives
\* (4,-8); mode ORIGIN resolves to (0,0) on every board.
ThmC10 ==
    /\ \A r \in DOMAIN lines :
          LET fp == pcbfile.footprints[footprints[r]]
              x == lines[r]["x"]
              y == lines[r]["y"]
          IN /\ OnGrid4(x) /\ Within4(x, PlainX(r))
             /\ OnGrid4(y) /\ Within4(y, PlainY(r))
             /\ (OnGrid4(ToMM(fp.center[1])) /\ OnGrid4(RunOrigin[1])) => x = PlainX(r)
             /\ (OnGrid4(ToMM(fp.center[2])) /\ OnGrid4(RunOrigin[2])) => y = PlainY(r)
             /\ (Lower(argv.format) = Str_default
                   /\ pcbfile.aux_origin = <<5000000, 5000000>>) =>
                   /\ fp.center = <<10000000, 10000000>> => x = <<5, 1>> /\ y = <<-5, 1>>
                   /\ fp.center = <<20000000, 5000000>> => x = <<15, 1>> /\ y = <<0, 1>>
             /\ (Lower(argv.format) = Str_default
                   /\ pcbfile.aux_origin = <<1000000, 2000000>>
                   /\ fp.center = <<5000000, 10000000>>) => x = <<4, 1>> /\ y = <<-8, 1>>
    /\ pc \notin {"parse", "check_path", "load"} =>
          /\ get_origin_by_mode(board, <<"O","R","I","G","I","N">>)
                 = Returned(<<RatInt(0), RatInt(0)>>)
          /\ pc \notin {"sort", "assert_nonempty", "lookup_format", "origin"}
                /\ ~(pc = "raised" /\ error.at \in {"assert_nonempty", "origin"})
                => settings.origin = RunOrigin

\* a finished macrofab run with a row whose footprint is off the grid, so
\* that its position is not the plain difference
WitC10 ==
    /\ pc = "exited"
    /\ Lower(argv.format) = Str_macrofab
    /\ \E r \in DOMAIN lines : lines[r]["x"] # PlainX(r) /\ lines[r]["y"] # PlainY(r)

\* the finished default run on R1 at (10,10) and C2 at (20,5) with the drill
\* origin at (5,5): C2 at (15,0), then R1 at (5,-5)
WitC10Example ==
    /\ pc = "exited"
    /\ Lower(argv.format) = Str_default
    /\ pcbfile.aux_origin = <<5000000, 5000000>>
    /\ Len(lines) = 2
    /\ lines[1]["ref des"] = <<"C","2">> /\ lines[1]["x"] = <<15, 1>>
    /\ lines[1]["y"] = <<0, 1>>
    /\ lines[2]["ref des"] = <<"R","1">> /\ lines[2]["x"] = <<5, 1>>
    /\ lines[2]["y"] = <<-5, 1>>

=============================================================================
